---- MODULE Spec2Model ----
(***************************************************************************)
(* CueConnectBackend: table reservation, win confirmation and the token    *)
(* ledger, modelled from the route handlers.                               *)
(*                                                                         *)
(* The repository holds several revisions of routes/tableRoutes.js.  One   *)
(* revision is deployed at a time; the variable rev fixes it:              *)
(*   "A"  src/routes/tableRoutes.js lines 1-695                            *)
(*   "B"  src/unnamed/part_013                                             *)
(*   "C"  src/unnamed/part_014                                             *)
(*   "D"  src/unnamed/part_012 (and src/routes/tableRoutes.js 697-963)     *)
(* The payment routes (src/unnamed/part_015, src/routes/paymentRoutes.js)  *)
(* and the Stripe webhook (src/server.js) are the same under every         *)
(* revision.                                                               *)
(*                                                                         *)
(* Spec      runs every table handler to completion (one step each).       *)
(* ConcSpec  runs the handlers that move tokens or seat a player one       *)
(*           database call at a time, two requests in flight.              *)
(*                                                                         *)
(* Mongoose save() is modelled as a write of the fields the handler        *)
(* assigned; schema enum validators are not modelled (the repository holds *)
(* several revisions of every schema and the handlers are taken as         *)
(* written).                                                               *)
(***************************************************************************)
EXTENDS Integers, Sequences, FiniteSets, TLC

VARIABLES rev, tokenBalance, table, sessions, perGameCost, intents, last, reqs

vars == <<rev, tokenBalance, table, sessions, perGameCost, intents, last, reqs>>

(* ---------------------------- bounds ----------------------------------- *)
MaxSessions == 2
MaxIntents == 1
MaxRequests == 2
MaxQueueLen == 2

(* ------------------------- program constants --------------------------- *)
DefaultPerGameCost == 10
TokenPriceCents == 10
MinChargeCents == 50

(* ---------------------------- universe --------------------------------- *)
Null == "null"
AdminId == "admin"
Users == {"A", "B", "C"}
(* The users who take seats and queue places under revision A, and the   *)
(* users whose requests ConcSpec runs step by step.                      *)
Players == {"A", "B"}
(* The users who buy tokens. *)
Buyers == {"A"}
Callers == Users \cup {AdminId}
Tables == {1}
TwoTables == {1, 2}
Revisions == {"A", "B", "C", "D"}
InitialBalance == [u \in Users |-> IF u = "C" THEN 0 ELSE 10]
ClientCosts == {0, 10}
VenueCosts == {5, 10}
Amounts == {1000}
TokenAmounts == {10}
Slots == {1, 2}
NoSession == 0

Range(s) == {s[i] : i \in 1..Len(s)}

(* A membership test that never finds the user. *)
IncludesNobody(q, u) == FALSE

Includes(q, u) == u \in Range(q)

(* A removal that drops the head of the queue, whoever it is. *)
WithoutHead(q, u) == IF u \in Range(q) THEN Tail(q) ELSE q

Without(q, u) == SelectSeq(q, LAMBDA x : x # u)

IsAdmin(c) == c = AdminId

RECURSIVE Sum(_, _)
Sum(f, S) ==
  IF S = {} THEN 0
  ELSE LET x == CHOOSE y \in S : TRUE IN f[x] + Sum(f, S \ {x})

(* ------------------------------ documents ------------------------------ *)
(* queue holds the user ids in join order; queueStatus holds, for the    *)
(* revision whose queue entries are sub-documents (models/Table.js), the *)
(* status of the entry at the same position.                             *)
NewTable ==
  [status |-> "available", player1Id |-> Null, player2Id |-> Null,
   currentSessionId |-> NoSession, queue |-> <<>>, queueStatus |-> <<>>]

NewSession(t, p1, p2, cost, status, type) ==
  [tableId |-> t, player1Id |-> p1, player2Id |-> p2, cost |-> cost,
   status |-> status, type |-> type, winnerId |-> Null,
   purchasedTokens |-> 0, stripePaymentIntentId |-> 0]

FindSession(sid) == IF sid \in 1..Len(sessions) THEN sid ELSE NoSession

(* What the last handler answered: the status code, whether it was a    *)
(* confirm-win whose caller named themself as the winner (own), and the *)
(* user an invitation was sent to (invited).                            *)
Response(op, u, t, code, w) ==
  [code |-> code, own |-> (op = "confirm-win" /\ u = w), invited |-> Null]

Respond(op, u, t, code, w) == last' = Response(op, u, t, code, w)

(* A request in flight: the handler (op), the await it is suspended at   *)
(* (pc), and the handler's locals: the user document's balance as loaded *)
(* and locally updated (bal), the table document as loaded (tb), the     *)
(* request argument (arg) and the session the handler created (sid); n   *)
(* counts the requests the slot has served.                              *)
idle ==
  [op |-> "idle", pc |-> "idle", user |-> Null, tableId |-> 0, arg |-> 0,
   bal |-> 0, tb |-> NewTable, sid |-> NoSession, code |-> 0, n |-> 0]

Finished(r, code) == [r EXCEPT !.pc = "done", !.code = code, !.bal = 0]

(* The state after start-up at a venue with the tables T. *)
InitWith(T) ==
  /\ rev \in Revisions
  /\ tokenBalance = InitialBalance
  /\ table = [t \in T |-> NewTable]
  /\ sessions = <<>>
  /\ perGameCost = DefaultPerGameCost
  /\ intents = <<>>
  /\ last = [code |-> 0, own |-> FALSE, invited |-> Null]
  /\ reqs = [s \in Slots |-> idle]

Init == InitWith(Tables)

(* A debit that does not look at the balance. *)
FundsCheckOmitted(balance, cost) == FALSE

(* A funds check that refuses exactly the requests that can pay. *)
FundsCheckInverted(balance, cost) == balance >= cost

(* The ledger check shared by every debit. *)
InsufficientTokens(balance, cost) == balance < cost

(* ======================= revision A: tableRoutes.js ==================== *)

JoinQueueA(u, t) ==
  /\ rev = "A"
  /\ LET tb == table[t] IN
     IF Includes(tb.queue, u) \/ tb.player1Id = u \/ tb.player2Id = u
     THEN /\ Respond("join-queue", u, t, 400, Null)
          /\ UNCHANGED table
     ELSE /\ table' = [table EXCEPT ![t].queue = Append(tb.queue, u),
                                    ![t].status = "queued"]
          /\ Respond("join-queue", u, t, 200, Null)
  /\ UNCHANGED <<rev, tokenBalance, sessions, perGameCost, intents, reqs>>

LeaveQueueA(u, t) ==
  /\ rev = "A"
  /\ LET tb == table[t]
         q == Without(tb.queue, u) IN
     IF Len(q) = Len(tb.queue)
     THEN /\ Respond("leave-queue", u, t, 400, Null)
          /\ UNCHANGED table
     ELSE /\ table' = [table EXCEPT ![t].queue = q,
                         ![t].status = IF Len(q) = 0 /\ tb.status = "queued"
                                       THEN "available" ELSE tb.status]
          /\ Respond("leave-queue", u, t, 200, Null)
  /\ UNCHANGED <<rev, tokenBalance, sessions, perGameCost, intents, reqs>>

DirectJoin(u, t) ==
  /\ rev = "A"
  /\ LET tb == table[t] IN
     IF tb.status = "maintenance" \/ tb.player1Id = u \/ tb.player2Id = u
        \/ Includes(tb.queue, u)
     THEN /\ Respond("direct-join", u, t, 400, Null)
          /\ UNCHANGED <<table, sessions>>
     ELSE IF tb.player1Id = Null
     THEN /\ table' = [table EXCEPT ![t].player1Id = u, ![t].status = "occupied"]
          /\ Respond("direct-join", u, t, 200, Null)
          /\ UNCHANGED sessions
     ELSE IF tb.player2Id = Null
     THEN /\ Len(sessions) < MaxSessions
          /\ sessions' = Append(sessions,
                NewSession(t, tb.player1Id, u, 0, "active", "direct_join"))
          /\ table' = [table EXCEPT ![t].player2Id = u, ![t].status = "in_play",
                                    ![t].currentSessionId = Len(sessions) + 1]
          /\ Respond("direct-join", u, t, 200, Null)
     ELSE /\ Respond("direct-join", u, t, 400, Null)
          /\ UNCHANGED <<table, sessions>>
  /\ UNCHANGED <<rev, tokenBalance, perGameCost, intents, reqs>>

PayForTable(u, t, cost) ==
  /\ rev = "A"
  /\ LET tb == table[t] IN
     IF cost <= 0 \/ InsufficientTokens(tokenBalance[u], cost)
        \/ tb.status \notin {"available", "occupied"}
     THEN /\ Respond("pay-for-table", u, t, 400, Null)
          /\ UNCHANGED <<tokenBalance, table, sessions>>
     ELSE /\ Len(sessions) < MaxSessions
          /\ tokenBalance' = [tokenBalance EXCEPT ![u] = @ - cost]
          /\ sessions' = Append(sessions, NewSession(t, u, Null, cost, "active", "game"))
          /\ table' = [table EXCEPT ![t].status = "in_play", ![t].player1Id = u,
                                    ![t].currentSessionId = Len(sessions) + 1]
          /\ Respond("pay-for-table", u, t, 200, Null)
  /\ UNCHANGED <<rev, perGameCost, intents, reqs>>

ClaimWinA(u, t, sid) ==
  /\ rev = "A"
  /\ LET tb == table[t] IN
     IF FindSession(sid) = NoSession
     THEN /\ Respond("claim-win", u, t, 404, u)
          /\ UNCHANGED <<table, sessions>>
     ELSE LET session == sessions[sid] IN
     IF session.status # "active"
     THEN /\ Respond("claim-win", u, t, 400, u)
          /\ UNCHANGED <<table, sessions>>
     ELSE IF tb.currentSessionId = NoSession
     THEN /\ Respond("claim-win", u, t, 500, u)
          /\ UNCHANGED <<table, sessions>>
     ELSE IF tb.currentSessionId # sid
     THEN /\ Respond("claim-win", u, t, 400, u)
          /\ UNCHANGED <<table, sessions>>
     ELSE IF session.player1Id # u /\ session.player2Id # u
     THEN /\ Respond("claim-win", u, t, 403, u)
          /\ UNCHANGED <<table, sessions>>
     ELSE LET opponentId ==
                IF session.player1Id = u /\ session.player2Id # Null
                THEN session.player2Id
                ELSE IF session.player2Id = u /\ session.player1Id # Null
                THEN session.player1Id ELSE Null IN
          IF opponentId # Null
          THEN /\ sessions' = [sessions EXCEPT ![sid].status = "pending_confirmation",
                                               ![sid].winnerId = u]
               /\ UNCHANGED table
               /\ Respond("claim-win", u, t, 200, u)
          ELSE /\ sessions' = [sessions EXCEPT ![sid].status = "completed",
                                               ![sid].winnerId = u]
               /\ table' = [table EXCEPT ![t].status = "available",
                              ![t].player1Id = Null, ![t].player2Id = Null,
                              ![t].currentSessionId = NoSession]
               /\ Respond("claim-win", u, t, 200, u)
  /\ UNCHANGED <<rev, tokenBalance, perGameCost, intents, reqs>>

ConfirmWinA(c, t, sid, w) ==
  /\ rev = "A"
  /\ IF FindSession(sid) = NoSession
     THEN /\ Respond("confirm-win", c, t, 404, w)
          /\ UNCHANGED <<table, sessions>>
     ELSE LET session == sessions[sid] IN
     IF session.status # "pending_confirmation" \/ session.winnerId # w
     THEN /\ Respond("confirm-win", c, t, 400, w)
          /\ UNCHANGED <<table, sessions>>
     ELSE IF session.player1Id # c /\ session.player2Id # c
     THEN /\ Respond("confirm-win", c, t, 403, w)
          /\ UNCHANGED <<table, sessions>>
     ELSE IF c = w
     THEN /\ Respond("confirm-win", c, t, 400, w)
          /\ UNCHANGED <<table, sessions>>
     ELSE /\ sessions' = [sessions EXCEPT ![sid].status = "completed"]
          /\ table' = [table EXCEPT ![t].status = "available",
                         ![t].player1Id = Null, ![t].player2Id = Null,
                         ![t].currentSessionId = NoSession]
          /\ Respond("confirm-win", c, t, 200, w)
  /\ UNCHANGED <<rev, tokenBalance, perGameCost, intents, reqs>>

DisputeWin(d, t, sid) ==
  /\ rev = "A"
  /\ IF FindSession(sid) = NoSession
     THEN /\ Respond("dispute-win", d, t, 404, Null)
          /\ UNCHANGED <<table, sessions>>
     ELSE LET session == sessions[sid] IN
     IF session.status # "pending_confirmation" \/ session.winnerId = d
     THEN /\ Respond("dispute-win", d, t, 400, Null)
          /\ UNCHANGED <<table, sessions>>
     ELSE IF session.player1Id # d /\ session.player2Id # d
     THEN /\ Respond("dispute-win", d, t, 403, Null)
          /\ UNCHANGED <<table, sessions>>
     ELSE /\ sessions' = [sessions EXCEPT ![sid].status = "disputed"]
          /\ table' = [table EXCEPT ![t].status = "maintenance",
                         ![t].player1Id = Null, ![t].player2Id = Null,
                         ![t].currentSessionId = NoSession]
          /\ Respond("dispute-win", d, t, 200, Null)
  /\ UNCHANGED <<rev, tokenBalance, perGameCost, intents, reqs>>

RemovePlayerA(c, t, p) ==
  /\ rev = "A"
  /\ LET tb == table[t] IN
     IF ~IsAdmin(c)
     THEN /\ Respond("remove-player", c, t, 403, Null)
          /\ UNCHANGED table
     ELSE IF tb.player1Id # p /\ tb.player2Id # p
     THEN /\ Respond("remove-player", c, t, 400, Null)
          /\ UNCHANGED table
     ELSE LET r == IF tb.player1Id = p THEN [tb EXCEPT !.player1Id = Null]
                   ELSE [tb EXCEPT !.player2Id = Null] IN
          /\ table' = [table EXCEPT ![t] =
               IF r.player1Id = Null /\ r.player2Id = Null
               THEN [r EXCEPT !.status = "available", !.currentSessionId = NoSession]
               ELSE IF r.player1Id # Null /\ r.player2Id = Null
               THEN [r EXCEPT !.status = "occupied"]
               ELSE r]
          /\ Respond("remove-player", c, t, 200, Null)
  /\ UNCHANGED <<rev, tokenBalance, sessions, perGameCost, intents, reqs>>

ClearQueueA(c, t) ==
  /\ rev = "A"
  /\ LET tb == table[t] IN
     IF ~IsAdmin(c)
     THEN /\ Respond("clear-queue", c, t, 403, Null)
          /\ UNCHANGED table
     ELSE IF Len(tb.queue) = 0
     THEN /\ Respond("clear-queue", c, t, 200, Null)
          /\ UNCHANGED table
     ELSE /\ table' = [table EXCEPT ![t].queue = <<>>,
                         ![t].status = IF tb.status = "queued" THEN "available"
                                       ELSE tb.status]
          /\ Respond("clear-queue", c, t, 200, Null)
  /\ UNCHANGED <<rev, tokenBalance, sessions, perGameCost, intents, reqs>>

(* ========================= services/gameService.js ===================== *)

(* inviteNextPlayer taking the newest queue entry instead of the oldest. *)
InviteLastPlayer(tb) ==
  IF tb.player1Id # Null /\ tb.player2Id # Null /\ tb.status = "in_play"
  THEN tb
  ELSE LET activeQueue ==
             SelectSeq(tb.queue, LAMBDA q : q # tb.player1Id /\ q # tb.player2Id) IN
       IF Len(activeQueue) = 0
       THEN IF tb.player1Id = Null /\ tb.player2Id = Null
            THEN [tb EXCEPT !.status = "available"]
            ELSE tb
       ELSE LET nextPlayerId == activeQueue[Len(activeQueue)] IN
            IF tb.player1Id = Null
            THEN [tb EXCEPT !.player1Id = nextPlayerId, !.status = "in_play",
                            !.queue = Without(tb.queue, nextPlayerId)]
            ELSE IF tb.player2Id = Null
            THEN [tb EXCEPT !.player2Id = nextPlayerId, !.status = "in_play",
                            !.queue = Without(tb.queue, nextPlayerId)]
            ELSE tb

InviteNextPlayer(tb) ==
  IF tb.player1Id # Null /\ tb.player2Id # Null /\ tb.status = "in_play"
  THEN tb
  ELSE LET activeQueue ==
             SelectSeq(tb.queue, LAMBDA q : q # tb.player1Id /\ q # tb.player2Id) IN
       IF Len(activeQueue) = 0
       THEN IF tb.player1Id = Null /\ tb.player2Id = Null
            THEN [tb EXCEPT !.status = "available"]
            ELSE tb
       ELSE LET nextPlayerId == Head(activeQueue) IN
            IF tb.player1Id = Null
            THEN [tb EXCEPT !.player1Id = nextPlayerId, !.status = "in_play",
                            !.queue = Without(tb.queue, nextPlayerId)]
            ELSE IF tb.player2Id = Null
            THEN [tb EXCEPT !.player2Id = nextPlayerId, !.status = "in_play",
                            !.queue = Without(tb.queue, nextPlayerId)]
            ELSE tb

(* The user inviteNextPlayer notified: the one it moved from the queue   *)
(* into a slot.                                                          *)
Invitee(tb, after) ==
  IF after.player1Id # tb.player1Id THEN after.player1Id
  ELSE IF after.player2Id # tb.player2Id THEN after.player2Id
  ELSE Null

(* Ids that sit in a stored queue but have no user document any more. *)
DeletedUsers == {"Y", "Z"}

(* A not-found branch that leaves the stored queue as it is. *)
KeepMissing(q, id) == q

(* table.queue.filter(uid => uid !== nextPlayerId) of the not-found      *)
(* branch.                                                               *)
DropMissing(q, id) == SelectSeq(q, LAMBDA x : x # id)

(* One invocation of inviteNextPlayer on the stored table t, the         *)
(* recursion unrolled: when the head of the active queue has no user     *)
(* document the id is filtered out, the table saved and the function     *)
(* calls itself (n counts these retries); every other path returns.      *)
InviteNextPlayerCall(t) ==
  /\ reqs[1].op = "invite-next" /\ reqs[1].pc = "call"
  /\ reqs[1].n <= MaxQueueLen
  /\ LET tb == table[t]
         full == tb.player1Id # Null /\ tb.player2Id # Null /\ tb.status = "in_play"
         activeQueue ==
           SelectSeq(tb.queue, LAMBDA q : q # tb.player1Id /\ q # tb.player2Id) IN
     IF ~full /\ Len(activeQueue) > 0 /\ Head(activeQueue) \notin Users
     THEN /\ table' = [table EXCEPT
                          ![t].queue = DropMissing(tb.queue, Head(activeQueue))]
          /\ reqs' = [reqs EXCEPT ![1].n = @ + 1]
     ELSE /\ table' = [table EXCEPT ![t] = InviteNextPlayer(tb)]
          /\ reqs' = [reqs EXCEPT ![1].pc = "done"]
  /\ UNCHANGED <<rev, tokenBalance, sessions, perGameCost, intents, last>>

(* The tables inviteNextPlayer may find stored. *)
QueueIds == Users \cup DeletedUsers

(* Queues as join-queue builds them: no id twice. *)
StoredQueues ==
  {q \in UNION {[1..n -> QueueIds] : n \in 0..MaxQueueLen} :
     \A i, j \in 1..Len(q) : q[i] = q[j] => i = j}

(* Nobody is seated twice or both seated and queued; both slots may be   *)
(* filled, since the function reloads the table after the handler that   *)
(* called it has saved.                                                  *)
StoredTables ==
  {tb \in {[NewTable EXCEPT !.status = st, !.player1Id = p1, !.player2Id = p2,
                            !.queue = q] :
             st \in {"available", "in_play", "awaiting_confirmation"},
             p1 \in Players \cup {Null}, p2 \in Players \cup {Null},
             q \in StoredQueues} :
     /\ tb.player1Id # Null => tb.player1Id # tb.player2Id
     /\ \A i \in 1..Len(tb.queue) :
          tb.queue[i] # tb.player1Id /\ tb.queue[i] # tb.player2Id}

(* A call of inviteNextPlayer on any stored table; the call remembers    *)
(* the table it was started on (tb).                                     *)
InitInvite ==
  /\ rev = "B"
  /\ tokenBalance = InitialBalance
  /\ table \in [Tables -> StoredTables]
  /\ sessions = <<>>
  /\ perGameCost = DefaultPerGameCost
  /\ intents = <<>>
  /\ last = [code |-> 0, own |-> FALSE, invited |-> Null]
  /\ reqs = [s \in Slots |->
               IF s = 1
               THEN [idle EXCEPT !.op = "invite-next", !.pc = "call",
                                 !.tableId = 1, !.tb = table[1]]
               ELSE idle]

NextInvite == \E t \in Tables : InviteNextPlayerCall(t)

(* The call is never suspended for ever: each await resolves. *)
SpecInvite == InitInvite /\ [][NextInvite]_vars /\ WF_vars(NextInvite)

(* ======================= revision B: part_013 ========================== *)

VenueCostInvalid == perGameCost <= 0

JoinTable(u, t) ==
  /\ rev = "B"
  /\ LET tb == table[t] IN
     IF tb.status # "available" \/ tb.player1Id # Null \/ tb.player2Id # Null
        \/ Includes(tb.queue, u)
     THEN /\ Respond("join-table", u, t, 400, Null)
          /\ UNCHANGED <<table, sessions>>
     ELSE LET seated == [tb EXCEPT !.player1Id = u, !.status = "in_play",
                                   !.queue = Without(tb.queue, u)] IN
          IF VenueCostInvalid
          THEN /\ table' = [table EXCEPT ![t] = seated]
               /\ Respond("join-table", u, t, 500, Null)
               /\ UNCHANGED sessions
          ELSE /\ Len(sessions) < MaxSessions
               /\ sessions' = Append(sessions,
                     NewSession(t, u, Null, perGameCost, "active", "drop_balls_now"))
               /\ table' = [table EXCEPT ![t] =
                     [seated EXCEPT !.currentSessionId = Len(sessions) + 1]]
               /\ Respond("join-table", u, t, 200, Null)
  /\ UNCHANGED <<rev, tokenBalance, perGameCost, intents, reqs>>

JoinQueueB(u, t) ==
  /\ rev = "B"
  /\ LET tb == table[t]
         numPlayers == (IF tb.player1Id # Null THEN 1 ELSE 0)
                       + (IF tb.player2Id # Null THEN 1 ELSE 0) IN
     IF tb.player1Id = u \/ tb.player2Id = u \/ Includes(tb.queue, u)
        \/ (numPlayers < 2 /\ Len(tb.queue) = 0 /\ tb.status = "available")
     THEN /\ Respond("join-queue", u, t, 400, Null)
          /\ UNCHANGED table
     ELSE /\ table' = [table EXCEPT ![t].queue = Append(tb.queue, u)]
          /\ Respond("join-queue", u, t, 200, Null)
  /\ UNCHANGED <<rev, tokenBalance, sessions, perGameCost, intents, reqs>>

LeaveQueueB(u, t) ==
  /\ rev = "B"
  /\ LET tb == table[t]
         q == Without(tb.queue, u) IN
     IF Len(q) = Len(tb.queue)
     THEN /\ Respond("leave-queue", u, t, 400, Null)
          /\ UNCHANGED table
     ELSE /\ table' = [table EXCEPT ![t].queue = q]
          /\ Respond("leave-queue", u, t, 200, Null)
  /\ UNCHANGED <<rev, tokenBalance, sessions, perGameCost, intents, reqs>>

ClaimWinB(u, t) ==
  /\ rev = "B"
  /\ LET tb == table[t] IN
     IF tb.player1Id # u /\ tb.player2Id # u
     THEN /\ Respond("claim-win", u, t, 403, u)
          /\ UNCHANGED table
     ELSE IF tb.player1Id = Null \/ tb.player2Id = Null
     THEN /\ Respond("claim-win", u, t, 400, u)
          /\ UNCHANGED table
     ELSE /\ table' = [table EXCEPT ![t].status = "awaiting_confirmation"]
          /\ Respond("claim-win", u, t, 200, u)
  /\ UNCHANGED <<rev, tokenBalance, sessions, perGameCost, intents, reqs>>

(* The winner-stays assignment of confirm-win. *)
WinnerStays(tb, winnerId) ==
  [tb EXCEPT !.currentSessionId = NoSession, !.player1Id = winnerId,
             !.player2Id = Null, !.status = "available"]

(* A participant check that only asks whether the caller is seated. *)
ConfirmerIsSeated(tb, c, w) == tb.player1Id = c \/ tb.player2Id = c

(* isPlayer1 || isPlayer2: the winner and the confirmer are the two      *)
(* occupants.                                                            *)
ConfirmerIsOpponent(tb, c, w) ==
  \/ tb.player1Id = w /\ tb.player2Id = c
  \/ tb.player2Id = w /\ tb.player1Id = c

ConfirmWinB(c, t, w) ==
  /\ rev = "B"
  /\ LET tb == table[t] IN
     IF ~ConfirmerIsOpponent(tb, c, w)
     THEN /\ Respond("confirm-win", c, t, 403, w)
          /\ UNCHANGED <<table, sessions>>
     ELSE IF tb.status # "awaiting_confirmation"
     THEN /\ Respond("confirm-win", c, t, 400, w)
          /\ UNCHANGED <<table, sessions>>
     ELSE /\ sessions' = IF FindSession(tb.currentSessionId) # NoSession
                         THEN [sessions EXCEPT ![tb.currentSessionId].status = "completed"]
                         ELSE sessions
          /\ table' = [table EXCEPT ![t] = InviteNextPlayer(WinnerStays(tb, w))]
          /\ last' = [Response("confirm-win", c, t, 200, w) EXCEPT !.invited =
                        Invitee(WinnerStays(tb, w), InviteNextPlayer(WinnerStays(tb, w)))]
  /\ UNCHANGED <<rev, tokenBalance, perGameCost, intents, reqs>>

DropBallsNowB(u, t) ==
  /\ rev = "B"
  /\ LET tb == table[t] IN
     IF tb.status = "in_play" \/ tb.status = "out_of_order"
     THEN /\ Respond("drop-balls-now", u, t, 400, Null)
          /\ UNCHANGED <<tokenBalance, table, sessions>>
     ELSE IF ~(tb.player1Id = Null /\ tb.player2Id = Null)
             /\ ~(tb.player1Id # Null /\ tb.player2Id = Null /\ tb.player1Id # u)
     THEN /\ Respond("drop-balls-now", u, t, 400, Null)
          /\ UNCHANGED <<tokenBalance, table, sessions>>
     ELSE LET seated == IF tb.player1Id = Null /\ tb.player2Id = Null
                        THEN [tb EXCEPT !.player1Id = u, !.status = "in_play"]
                        ELSE [tb EXCEPT !.player2Id = u, !.status = "in_play"] IN
          IF VenueCostInvalid
          THEN /\ Respond("drop-balls-now", u, t, 500, Null)
               /\ UNCHANGED <<tokenBalance, table, sessions>>
          ELSE IF InsufficientTokens(tokenBalance[u], perGameCost)
          THEN /\ Respond("drop-balls-now", u, t, 400, Null)
               /\ UNCHANGED <<tokenBalance, table, sessions>>
          ELSE /\ Len(sessions) < MaxSessions
               /\ tokenBalance' = [tokenBalance EXCEPT ![u] = @ - perGameCost]
               /\ sessions' = Append(sessions,
                     NewSession(t, seated.player1Id, seated.player2Id, perGameCost,
                                "active", "drop_balls_now"))
               /\ table' = [table EXCEPT ![t] =
                     [seated EXCEPT !.queue = <<>>,
                                    !.currentSessionId = Len(sessions) + 1]]
               /\ Respond("drop-balls-now", u, t, 200, Null)
  /\ UNCHANGED <<rev, perGameCost, intents, reqs>>

GameCompletedB(c, t, w) ==
  /\ rev = "B"
  /\ LET tb == table[t] IN
     IF tb.status # "in_play"
     THEN /\ Respond("game-completed", c, t, 400, w)
          /\ UNCHANGED <<table, sessions>>
     ELSE LET ended ==
                IF w # Null /\ (tb.player1Id = w \/ tb.player2Id = w)
                THEN WinnerStays(tb, w)
                ELSE [tb EXCEPT !.currentSessionId = NoSession, !.player1Id = Null,
                                !.player2Id = Null, !.status = "available"] IN
          /\ sessions' = IF FindSession(tb.currentSessionId) # NoSession
                         THEN [sessions EXCEPT ![tb.currentSessionId].status = "completed"]
                         ELSE sessions
          /\ table' = [table EXCEPT ![t] = InviteNextPlayer(ended)]
          /\ last' = [Response("game-completed", c, t, 200, w) EXCEPT !.invited =
                        Invitee(ended, InviteNextPlayer(ended))]
  /\ UNCHANGED <<rev, tokenBalance, perGameCost, intents, reqs>>

ClearQueueB(c, t) ==
  /\ rev = "B"
  /\ IF ~IsAdmin(c)
     THEN /\ Respond("clear-queue", c, t, 403, Null)
          /\ UNCHANGED table
     ELSE /\ table' = [table EXCEPT ![t].queue = <<>>]
          /\ Respond("clear-queue", c, t, 200, Null)
  /\ UNCHANGED <<rev, tokenBalance, sessions, perGameCost, intents, reqs>>

RemovePlayerB(c, t, p) ==
  /\ rev = "B"
  /\ LET tb == table[t] IN
     IF ~IsAdmin(c)
     THEN /\ Respond("remove-player", c, t, 403, Null)
          /\ UNCHANGED table
     ELSE IF tb.player1Id # p /\ tb.player2Id # p
     THEN /\ Respond("remove-player", c, t, 400, Null)
          /\ UNCHANGED table
     ELSE LET r == IF tb.player1Id = p THEN [tb EXCEPT !.player1Id = Null]
                   ELSE [tb EXCEPT !.player2Id = Null] IN
          /\ table' = [table EXCEPT ![t] =
               [r EXCEPT !.status = IF r.player1Id = Null /\ r.player2Id = Null
                                    THEN "available"
                                    ELSE IF r.status = "awaiting_confirmation"
                                    THEN "in_play" ELSE r.status,
                         !.queue = Without(r.queue, p)]]
          /\ Respond("remove-player", c, t, 200, Null)
  /\ UNCHANGED <<rev, tokenBalance, sessions, perGameCost, intents, reqs>>

(* ======================= revision C: part_014 ========================== *)

(* part_014 never imports the User model: the handler throws at line 174. *)
DropBallsNowC(u, t) ==
  /\ rev = "C"
  /\ LET tb == table[t] IN
     IF tb.status = "in_play" \/ tb.status = "out_of_order"
     THEN Respond("drop-balls-now", u, t, 400, Null)
     ELSE Respond("drop-balls-now", u, t, 500, Null)
  /\ UNCHANGED <<rev, tokenBalance, table, sessions, perGameCost, intents, reqs>>

(* Positions of the queue entries of user u with a status in st. *)
Entries(tb, u, st) ==
  {i \in 1..Len(tb.queue) : tb.queue[i] = u /\ tb.queueStatus[i] \in st}

Min(S) == CHOOSE x \in S : \A y \in S : x <= y

(* The inviteNextPlayer this revision calls is not in the repository     *)
(* (services/gameService.js works on a queue of plain user ids).  After  *)
(* the design: the first waiting user of the queue receives the          *)
(* invitation and the table leaves available; with nobody waiting and no *)
(* occupant the table returns to available.  The entry stays in the      *)
(* queue, marked invited, which is what accept-invitation looks up.      *)
InviteNextC(tb) ==
  LET waiting == {i \in 1..Len(tb.queue) : tb.queueStatus[i] = "waiting"} IN
  IF waiting = {}
  THEN IF tb.player1Id = Null /\ tb.player2Id = Null
       THEN [tb EXCEPT !.status = "available"]
       ELSE tb
  ELSE [tb EXCEPT !.queueStatus[Min(waiting)] = "invited",
                  !.status = IF @ = "available" THEN "occupied" ELSE @]

(* The user InviteNextC invited, if any. *)
InviteeC(tb) ==
  LET waiting == {i \in 1..Len(tb.queue) : tb.queueStatus[i] = "waiting"} IN
  IF waiting = {} THEN Null ELSE tb.queue[Min(waiting)]

JoinQueueC(u, t) ==
  /\ rev = "C"
  /\ LET tb == table[t] IN
     IF Entries(tb, u, {"waiting", "invited", "playing"}) # {}
        \/ tb.player1Id = u \/ tb.player2Id = u
     THEN /\ Respond("join-queue", u, t, 400, Null)
          /\ UNCHANGED table
     ELSE LET pushed == [tb EXCEPT !.queue = Append(@, u),
                                   !.queueStatus = Append(@, "waiting")] IN
          /\ Len(tb.queue) < MaxQueueLen
          /\ IF pushed.status = "available" /\ pushed.player1Id = Null
             THEN /\ table' = [table EXCEPT ![t] = InviteNextC(pushed)]
                  /\ last' = [Response("join-queue", u, t, 200, Null)
                                EXCEPT !.invited = InviteeC(pushed)]
             ELSE /\ table' = [table EXCEPT ![t] = pushed]
                  /\ Respond("join-queue", u, t, 200, Null)
  /\ UNCHANGED <<rev, tokenBalance, sessions, perGameCost, intents, reqs>>

AnyQueuedUser(tb, u) == u \in Range(tb.queue)

HoldsInvitation(tb, u) == Entries(tb, u, {"invited"}) # {}

AcceptInvitationC(u, t) ==
  /\ rev = "C"
  /\ LET tb == table[t] IN
     IF ~HoldsInvitation(tb, u)
     THEN /\ Respond("accept-invitation", u, t, 400, Null)
          /\ UNCHANGED <<table, sessions>>
     ELSE IF VenueCostInvalid
     THEN /\ Respond("accept-invitation", u, t, 500, Null)
          /\ UNCHANGED <<table, sessions>>
     ELSE LET p1 == IF tb.player1Id # Null /\ tb.player1Id # u
                    THEN tb.player1Id ELSE u
              p2 == IF tb.player1Id # Null /\ tb.player1Id # u
                    THEN u ELSE tb.player2Id
              keep == {i \in 1..Len(tb.queue) :
                         /\ tb.queue[i] # p1 /\ tb.queue[i] # p2
                         /\ tb.queueStatus[i] # "invited"}
              pos == [i \in 1..Len(tb.queue) |-> i] IN
          /\ Len(sessions) < MaxSessions
          /\ sessions' = Append(sessions,
                NewSession(t, p1, p2, perGameCost, "pending", "per_game"))
          /\ table' = [table EXCEPT ![t] =
                [tb EXCEPT !.player1Id = p1, !.player2Id = p2,
                           !.status = "in_play",
                           !.queue = [j \in 1..Cardinality(keep) |->
                              tb.queue[SelectSeq(pos, LAMBDA i : i \in keep)[j]]],
                           !.queueStatus = [j \in 1..Cardinality(keep) |->
                              tb.queueStatus[SelectSeq(pos, LAMBDA i : i \in keep)[j]]],
                           !.currentSessionId = Len(sessions) + 1]]
          /\ Respond("accept-invitation", u, t, 200, Null)
  /\ UNCHANGED <<rev, tokenBalance, perGameCost, intents, reqs>>

DeclineInvitationC(u, t) ==
  /\ rev = "C"
  /\ LET tb == table[t] IN
     IF ~HoldsInvitation(tb, u)
     THEN /\ Respond("decline-invitation", u, t, 400, Null)
          /\ UNCHANGED table
     ELSE LET declined == [tb EXCEPT
                 !.queueStatus[Min(Entries(tb, u, {"invited"}))] = "declined"] IN
          /\ table' = [table EXCEPT ![t] = InviteNextC(declined)]
          /\ last' = [Response("decline-invitation", u, t, 200, Null)
                        EXCEPT !.invited = InviteeC(declined)]
  /\ UNCHANGED <<rev, tokenBalance, sessions, perGameCost, intents, reqs>>

GameCompletedC(c, t, w) ==
  /\ rev = "C"
  /\ LET tb == table[t] IN
     IF tb.status # "in_play"
     THEN /\ Respond("game-completed", c, t, 400, w)
          /\ UNCHANGED <<table, sessions>>
     ELSE LET sid == FindSession(tb.currentSessionId)
              perGame == sid # NoSession /\ sessions[sid].type = "per_game"
              ended == [tb EXCEPT
                 !.currentSessionId = NoSession,
                 !.player1Id = IF perGame /\ w # Null THEN w ELSE Null,
                 !.player2Id = Null,
                 !.status = "available"] IN
          /\ sessions' = IF sid # NoSession
                         THEN [sessions EXCEPT ![sid].status = "completed"]
                         ELSE sessions
          /\ IF perGame
             THEN /\ table' = [table EXCEPT ![t] = InviteNextC(ended)]
                  /\ last' = [Response("game-completed", c, t, 200, w)
                                EXCEPT !.invited = InviteeC(ended)]
             ELSE /\ table' = [table EXCEPT ![t] = ended]
                  /\ Respond("game-completed", c, t, 200, w)
  /\ UNCHANGED <<rev, tokenBalance, perGameCost, intents, reqs>>

(* A debit of whatever the venue charges at the time of the payment. *)
VenueCostNow(sid) == perGameCost

(* The amount payments/confirm checks and debits: session.cost. *)
SessionCost(sid) == sessions[sid].cost

(* payments/confirm (part_015), run to completion. *)
PaymentsConfirm(u, sid) ==
  /\ IF FindSession(sid) = NoSession
     THEN /\ last' = Response("payments-confirm", u, 0, 403, Null)
          /\ UNCHANGED <<tokenBalance, sessions>>
     ELSE IF sessions[sid].player1Id # u /\ sessions[sid].player2Id # u
     THEN /\ last' = Response("payments-confirm", u, 0, 403, Null)
          /\ UNCHANGED <<tokenBalance, sessions>>
     ELSE IF InsufficientTokens(tokenBalance[u], SessionCost(sid))
     THEN /\ last' = Response("payments-confirm", u, 0, 400, Null)
          /\ UNCHANGED <<tokenBalance, sessions>>
     ELSE /\ tokenBalance' = [tokenBalance EXCEPT ![u] = @ - SessionCost(sid)]
          /\ sessions' = [sessions EXCEPT ![sid].status = "active"]
          /\ last' = Response("payments-confirm", u, 0, 200, Null)
  /\ UNCHANGED <<rev, table, perGameCost, intents, reqs>>

(* ========================= routes/venueRoutes.js ======================= *)
(* PUT /venues/:venueId, as far as it concerns the per-game cost: the    *)
(* venue's owner is the admin; a cost that is a number >= 0 is stored.   *)
UpdateVenue(c, cost) ==
  /\ IF ~IsAdmin(c)
     THEN /\ last' = Response("update-venue", c, 0, 403, Null)
          /\ UNCHANGED perGameCost
     ELSE /\ perGameCost' = IF cost >= 0 THEN cost ELSE perGameCost
          /\ last' = Response("update-venue", c, 0, 200, Null)
  /\ UNCHANGED <<rev, tokenBalance, table, sessions, intents, reqs>>

(* ======================= revision D: part_012 ========================== *)
(* The queue-only revision (also routes/tableRoutes.js lines 697-963):   *)
(* its tables have no player slots.                                      *)

JoinQueueD(u, t) ==
  /\ rev = "D"
  /\ LET tb == table[t] IN
     IF Includes(tb.queue, u)
     THEN /\ Respond("join-queue", u, t, 409, Null)
          /\ UNCHANGED table
     ELSE /\ table' = [table EXCEPT ![t].queue = Append(tb.queue, u)]
          /\ Respond("join-queue", u, t, 200, Null)
  /\ UNCHANGED <<rev, tokenBalance, sessions, perGameCost, intents, reqs>>

LeaveQueueD(u, t) ==
  /\ rev = "D"
  /\ LET tb == table[t]
         q == Without(tb.queue, u) IN
     IF Len(q) = Len(tb.queue)
     THEN /\ Respond("leave-queue", u, t, 404, Null)
          /\ UNCHANGED table
     ELSE /\ table' = [table EXCEPT ![t].queue = q]
          /\ Respond("leave-queue", u, t, 200, Null)
  /\ UNCHANGED <<rev, tokenBalance, sessions, perGameCost, intents, reqs>>

ClearQueueD(c, t) ==
  /\ rev = "D"
  /\ IF ~IsAdmin(c)
     THEN /\ Respond("clear-queue", c, t, 403, Null)
          /\ UNCHANGED table
     ELSE /\ table' = [table EXCEPT ![t].queue = <<>>]
          /\ Respond("clear-queue", c, t, 200, Null)
  /\ UNCHANGED <<rev, tokenBalance, sessions, perGameCost, intents, reqs>>

(* ======================= sequential specification ====================== *)

NextA ==
  \E t \in Tables :
    \/ \E u \in Players : JoinQueueA(u, t)
    \/ \E u \in Players : LeaveQueueA(u, t)
    \/ \E u \in Players : DirectJoin(u, t)
    \/ \E u \in Players : \E cost \in ClientCosts : PayForTable(u, t, cost)
    \/ \E u \in Users : \E sid \in 1..MaxSessions : ClaimWinA(u, t, sid)
    \/ \E c \in Users : \E sid \in 1..MaxSessions : \E w \in Users :
         ConfirmWinA(c, t, sid, w)
    \/ \E d \in Users : \E sid \in 1..MaxSessions : DisputeWin(d, t, sid)
    \/ \E c \in Callers : \E p \in Players : RemovePlayerA(c, t, p)
    \/ \E c \in Callers : ClearQueueA(c, t)
    \/ \E u \in Users : \E sid \in 1..MaxSessions :
         rev = "A" /\ PaymentsConfirm(u, sid)

NextB ==
  \E t \in Tables :
    \/ \E u \in Users : JoinTable(u, t)
    \/ \E u \in Users : JoinQueueB(u, t)
    \/ \E u \in Users : LeaveQueueB(u, t)
    \/ \E u \in Users : ClaimWinB(u, t)
    \/ \E c \in Users : \E w \in Users : ConfirmWinB(c, t, w)
    \/ \E u \in Users : DropBallsNowB(u, t)
    \/ \E c \in Users : \E w \in Users \cup {Null} : GameCompletedB(c, t, w)
    \/ \E c \in Callers : ClearQueueB(c, t)
    \/ \E c \in Callers : \E p \in Users : RemovePlayerB(c, t, p)

NextC ==
  \/ \E t \in Tables :
       \/ \E u \in Players : JoinQueueC(u, t)
       \/ \E u \in Users : AcceptInvitationC(u, t)
       \/ \E u \in Users : DeclineInvitationC(u, t)
       \/ \E u \in Users : DropBallsNowC(u, t)
       \/ \E c \in Users : \E w \in Players \cup {Null} : GameCompletedC(c, t, w)
  \/ \E u \in Users : \E sid \in 1..MaxSessions :
       rev = "C" /\ PaymentsConfirm(u, sid)

NextD ==
  \E t \in Tables :
    \/ \E u \in Users : JoinQueueD(u, t)
    \/ \E u \in Users : LeaveQueueD(u, t)
    \/ \E c \in Callers : ClearQueueD(c, t)

Next ==
  \/ NextA
  \/ NextB
  \/ NextC
  \/ NextD

Spec == Init /\ [][Next]_vars

(* One deployed revision at a time. *)
InitA == Init /\ rev = "A"

SpecA == InitA /\ [][NextA]_vars

InitB == Init /\ rev = "B"

SpecB == InitB /\ [][NextB]_vars

InitC == Init /\ rev = "C"

SpecC == InitC /\ [][NextC]_vars

(* Revision A at a venue with two tables: a request names its table   *)
(* and its session independently of each other.                       *)
InitA2 == InitWith(TwoTables) /\ rev = "A"

(* The handlers of revision A that create or change a session. *)
NextA2 ==
  \/ \E t \in TwoTables :
       \/ \E u \in Players : DirectJoin(u, t)
       \/ \E u \in Players : \E cost \in ClientCosts : PayForTable(u, t, cost)
       \/ \E u \in Players : \E sid \in 1..MaxSessions : ClaimWinA(u, t, sid)
       \/ \E c \in Players : \E sid \in 1..MaxSessions : \E w \in Players :
            ConfirmWinA(c, t, sid, w)
       \/ \E d \in Players : \E sid \in 1..MaxSessions : DisputeWin(d, t, sid)
  \/ \E u \in Players : \E sid \in 1..MaxSessions :
       rev = "A" /\ PaymentsConfirm(u, sid)

(* The server keeps answering: while some request can be served, one  *)
(* eventually is.                                                     *)
SpecA2 == InitA2 /\ [][NextA2]_vars /\ WF_vars(NextA2)

(* Revision C at a venue whose owner changes the per-game cost. *)
NextV == \E c \in Callers : \E cost \in VenueCosts : UpdateVenue(c, cost)

SpecCV == InitC /\ [][NextC \/ NextV]_vars


(* Revision B under a venue whose price the admin may also set to 0,     *)
(* which PUT /venues/:id stores like any other non-negative number.      *)
StorableCosts == {0, 10}

NextBV ==
  \/ NextB
  \/ \E c \in Callers : \E cost \in StorableCosts : UpdateVenue(c, cost)

SpecBV == InitB /\ [][NextBV]_vars

(* ==================== requests one database call at a time ============= *)

Free(s) == reqs[s].pc \in {"idle", "done"}

(* A request takes an unused slot if there is one, else the slot of a    *)
(* finished request; slots are interchangeable, the lowest is taken.     *)
CanBegin(s) ==
  /\ Free(s)
  /\ Sum([r \in Slots |-> reqs[r].n], Slots) < MaxRequests
  /\ \A r \in Slots :
       /\ (reqs[s].pc = "done" /\ Free(r)) => reqs[r].pc = "done"
       /\ (r < s /\ reqs[r].pc = reqs[s].pc) => FALSE

Begin(s, op, u, t, arg) ==
  [idle EXCEPT !.op = op, !.user = u, !.tableId = t, !.arg = arg,
               !.n = reqs[s].n + 1]

SeqFrame == UNCHANGED <<rev, perGameCost, last>>

(* ---- tableRoutes.js pay-for-table ---- *)

PayForTableFindUser(s, u, t, cost) ==
  /\ rev = "A"
  /\ CanBegin(s)
  /\ LET r == Begin(s, "pay-for-table", u, t, cost) IN
     reqs' = [reqs EXCEPT ![s] =
       IF cost <= 0 \/ InsufficientTokens(tokenBalance[u], cost)
       THEN Finished(r, 400)
       ELSE [r EXCEPT !.pc = "findTable", !.bal = tokenBalance[u]]]
  /\ UNCHANGED <<tokenBalance, table, sessions, intents>>
  /\ SeqFrame

PayForTableFindTable(s) ==
  /\ reqs[s].op = "pay-for-table" /\ reqs[s].pc = "findTable"
  /\ LET r == reqs[s]
         tb == table[r.tableId] IN
     reqs' = [reqs EXCEPT ![s] =
       IF tb.status \notin {"available", "occupied"}
       THEN Finished(r, 400)
       ELSE [r EXCEPT !.pc = "saveUser", !.tb = tb, !.bal = r.bal - r.arg]]
  /\ UNCHANGED <<tokenBalance, table, sessions, intents>>
  /\ SeqFrame

PayForTableSaveUser(s) ==
  /\ reqs[s].op = "pay-for-table" /\ reqs[s].pc = "saveUser"
  /\ tokenBalance' = [tokenBalance EXCEPT ![reqs[s].user] = reqs[s].bal]
  /\ reqs' = [reqs EXCEPT ![s].pc = "saveSession"]
  /\ UNCHANGED <<table, sessions, intents>>
  /\ SeqFrame

PayForTableSaveSession(s) ==
  /\ reqs[s].op = "pay-for-table" /\ reqs[s].pc = "saveSession"
  /\ Len(sessions) < MaxSessions
  /\ LET r == reqs[s] IN
     sessions' = Append(sessions,
        NewSession(r.tableId, r.user, Null, r.arg, "active", "game"))
  /\ reqs' = [reqs EXCEPT ![s].pc = "saveTable", ![s].sid = Len(sessions) + 1]
  /\ UNCHANGED <<tokenBalance, table, intents>>
  /\ SeqFrame

(* table.save() writes the paths the handler changed on its copy. *)
PayForTableSaveTable(s) ==
  /\ reqs[s].op = "pay-for-table" /\ reqs[s].pc = "saveTable"
  /\ LET r == reqs[s] IN
     /\ table' = [table EXCEPT
          ![r.tableId].status = "in_play",
          ![r.tableId].player1Id = IF r.tb.player1Id = r.user THEN @ ELSE r.user,
          ![r.tableId].currentSessionId = r.sid]
     /\ reqs' = [reqs EXCEPT ![s] = Finished(r, 200)]
  /\ UNCHANGED <<tokenBalance, sessions, intents>>
  /\ SeqFrame

(* ---- tableRoutes.js pay-with-tokens ---- *)

PayWithTokensFind(s, u, t, cost) ==
  /\ rev = "A"
  /\ CanBegin(s)
  /\ LET r == Begin(s, "pay-with-tokens", u, t, cost) IN
     reqs' = [reqs EXCEPT ![s] =
       IF cost # perGameCost \/ InsufficientTokens(tokenBalance[u], cost)
       THEN Finished(r, 400)
       ELSE [r EXCEPT !.pc = "saveUser", !.bal = tokenBalance[u] - cost]]
  /\ UNCHANGED <<tokenBalance, table, sessions, intents>>
  /\ SeqFrame

PayWithTokensSaveUser(s) ==
  /\ reqs[s].op = "pay-with-tokens" /\ reqs[s].pc = "saveUser"
  /\ tokenBalance' = [tokenBalance EXCEPT ![reqs[s].user] = reqs[s].bal]
  /\ reqs' = [reqs EXCEPT ![s] = Finished(reqs[s], 200)]
  /\ UNCHANGED <<table, sessions, intents>>
  /\ SeqFrame

(* ---- part_013 drop-balls-now ---- *)

(* The handler's copy of the table after it took its seat. *)
Seated(tb, u) ==
  IF tb.player1Id = Null /\ tb.player2Id = Null
  THEN [tb EXCEPT !.player1Id = u, !.status = "in_play"]
  ELSE [tb EXCEPT !.player2Id = u, !.status = "in_play"]

DropBallsNowFindTable(s, u, t) ==
  /\ rev = "B"
  /\ CanBegin(s)
  /\ LET r == Begin(s, "drop-balls-now", u, t, perGameCost)
         tb == table[t] IN
     reqs' = [reqs EXCEPT ![s] =
       IF tb.status = "in_play" \/ tb.status = "out_of_order"
       THEN Finished(r, 400)
       ELSE IF ~(tb.player1Id = Null /\ tb.player2Id = Null)
               /\ ~(tb.player1Id # Null /\ tb.player2Id = Null /\ tb.player1Id # u)
       THEN Finished(r, 400)
       ELSE IF VenueCostInvalid
       THEN Finished(r, 500)
       ELSE [r EXCEPT !.pc = "findUser", !.tb = tb]]
  /\ UNCHANGED <<tokenBalance, table, sessions, intents>>
  /\ SeqFrame

DropBallsNowFindUser(s) ==
  /\ reqs[s].op = "drop-balls-now" /\ reqs[s].pc = "findUser"
  /\ LET r == reqs[s] IN
     reqs' = [reqs EXCEPT ![s] =
       IF InsufficientTokens(tokenBalance[r.user], r.arg)
       THEN Finished(r, 400)
       ELSE [r EXCEPT !.pc = "saveUser", !.bal = tokenBalance[r.user] - r.arg]]
  /\ UNCHANGED <<tokenBalance, table, sessions, intents>>
  /\ SeqFrame

DropBallsNowSaveUser(s) ==
  /\ reqs[s].op = "drop-balls-now" /\ reqs[s].pc = "saveUser"
  /\ tokenBalance' = [tokenBalance EXCEPT ![reqs[s].user] = reqs[s].bal]
  /\ reqs' = [reqs EXCEPT ![s].pc = "saveSession"]
  /\ UNCHANGED <<table, sessions, intents>>
  /\ SeqFrame

DropBallsNowSaveSession(s) ==
  /\ reqs[s].op = "drop-balls-now" /\ reqs[s].pc = "saveSession"
  /\ Len(sessions) < MaxSessions
  /\ LET r == reqs[s] IN
     sessions' = Append(sessions,
        NewSession(r.tableId, Seated(r.tb, r.user).player1Id,
                   Seated(r.tb, r.user).player2Id, r.arg,
                   "active", "drop_balls_now"))
  /\ reqs' = [reqs EXCEPT ![s].pc = "saveTable", ![s].sid = Len(sessions) + 1]
  /\ UNCHANGED <<tokenBalance, table, intents>>
  /\ SeqFrame

(* table.save() writes the seat the handler took, the status, the queue  *)
(* if the handler emptied it, and the session reference.                 *)
DropBallsNowSaveTable(s) ==
  /\ reqs[s].op = "drop-balls-now" /\ reqs[s].pc = "saveTable"
  /\ LET r == reqs[s]
         mine == Seated(r.tb, r.user) IN
     /\ table' = [table EXCEPT
          ![r.tableId].status = "in_play",
          ![r.tableId].player1Id = IF mine.player1Id # r.tb.player1Id
                                   THEN mine.player1Id ELSE @,
          ![r.tableId].player2Id = IF mine.player2Id # r.tb.player2Id
                                   THEN mine.player2Id ELSE @,
          ![r.tableId].queue = IF Len(r.tb.queue) > 0 THEN <<>> ELSE @,
          ![r.tableId].currentSessionId = r.sid]
     /\ reqs' = [reqs EXCEPT ![s] = Finished(r, 200)]
  /\ UNCHANGED <<tokenBalance, sessions, intents>>
  /\ SeqFrame

(* ---- part_015 payments/confirm ---- *)

PaymentsConfirmFindSession(s, u, sid) ==
  /\ CanBegin(s)
  /\ LET r == Begin(s, "payments-confirm", u, 0, sid) IN
     reqs' = [reqs EXCEPT ![s] =
       IF FindSession(sid) = NoSession THEN Finished(r, 403)
       ELSE IF sessions[sid].player1Id # u /\ sessions[sid].player2Id # u
       THEN Finished(r, 403)
       ELSE [r EXCEPT !.pc = "findUser", !.sid = sid]]
  /\ UNCHANGED <<tokenBalance, table, sessions, intents>>
  /\ SeqFrame

PaymentsConfirmFindUser(s) ==
  /\ reqs[s].op = "payments-confirm" /\ reqs[s].pc = "findUser"
  /\ LET r == reqs[s]
         cost == sessions[r.sid].cost IN
     reqs' = [reqs EXCEPT ![s] =
       IF InsufficientTokens(tokenBalance[r.user], cost)
       THEN Finished(r, 400)
       ELSE [r EXCEPT !.pc = "saveUser", !.bal = tokenBalance[r.user] - cost]]
  /\ UNCHANGED <<tokenBalance, table, sessions, intents>>
  /\ SeqFrame

PaymentsConfirmSaveUser(s) ==
  /\ reqs[s].op = "payments-confirm" /\ reqs[s].pc = "saveUser"
  /\ tokenBalance' = [tokenBalance EXCEPT ![reqs[s].user] = reqs[s].bal]
  /\ reqs' = [reqs EXCEPT ![s].pc = "saveSession"]
  /\ UNCHANGED <<table, sessions, intents>>
  /\ SeqFrame

PaymentsConfirmSaveSession(s) ==
  /\ reqs[s].op = "payments-confirm" /\ reqs[s].pc = "saveSession"
  /\ sessions' = [sessions EXCEPT ![reqs[s].sid].status = "active"]
  /\ reqs' = [reqs EXCEPT ![s] = Finished(reqs[s], 200)]
  /\ UNCHANGED <<tokenBalance, table, intents>>
  /\ SeqFrame

(* ---- tableRoutes.js confirm-win and dispute-win, await by await ---- *)

(* Session.findById and Table.findById, then the checks on what was     *)
(* read; nothing is written between the two reads.                      *)
ConfirmWinFind(s, c, t, sid, w) ==
  /\ CanBegin(s)
  /\ LET r == Begin(s, "confirm-win", c, t, sid) IN
     reqs' = [reqs EXCEPT ![s] =
       IF FindSession(sid) = NoSession THEN Finished(r, 404)
       ELSE IF sessions[sid].status # "pending_confirmation"
               \/ sessions[sid].winnerId # w
       THEN Finished(r, 400)
       ELSE IF sessions[sid].player1Id # c /\ sessions[sid].player2Id # c
       THEN Finished(r, 403)
       ELSE IF c = w THEN Finished(r, 400)
       ELSE [r EXCEPT !.pc = "saveSession", !.sid = sid]]
  /\ UNCHANGED <<tokenBalance, table, sessions, intents>>
  /\ SeqFrame

ConfirmWinSaveSession(s) ==
  /\ reqs[s].op = "confirm-win" /\ reqs[s].pc = "saveSession"
  /\ sessions' = [sessions EXCEPT ![reqs[s].sid].status = "completed"]
  /\ reqs' = [reqs EXCEPT ![s].pc = "saveTable"]
  /\ UNCHANGED <<tokenBalance, table, intents>>
  /\ SeqFrame

ConfirmWinSaveTable(s) ==
  /\ reqs[s].op = "confirm-win" /\ reqs[s].pc = "saveTable"
  /\ table' = [table EXCEPT ![reqs[s].tableId].status = "available",
                 ![reqs[s].tableId].player1Id = Null,
                 ![reqs[s].tableId].player2Id = Null,
                 ![reqs[s].tableId].currentSessionId = NoSession]
  /\ reqs' = [reqs EXCEPT ![s] = Finished(reqs[s], 200)]
  /\ UNCHANGED <<tokenBalance, sessions, intents>>
  /\ SeqFrame

DisputeWinFind(s, d, t, sid) ==
  /\ CanBegin(s)
  /\ LET r == Begin(s, "dispute-win", d, t, sid) IN
     reqs' = [reqs EXCEPT ![s] =
       IF FindSession(sid) = NoSession THEN Finished(r, 404)
       ELSE IF sessions[sid].status # "pending_confirmation"
               \/ sessions[sid].winnerId = d
       THEN Finished(r, 400)
       ELSE IF sessions[sid].player1Id # d /\ sessions[sid].player2Id # d
       THEN Finished(r, 403)
       ELSE [r EXCEPT !.pc = "saveSession", !.sid = sid]]
  /\ UNCHANGED <<tokenBalance, table, sessions, intents>>
  /\ SeqFrame

DisputeWinSaveSession(s) ==
  /\ reqs[s].op = "dispute-win" /\ reqs[s].pc = "saveSession"
  /\ sessions' = [sessions EXCEPT ![reqs[s].sid].status = "disputed"]
  /\ reqs' = [reqs EXCEPT ![s].pc = "saveTable"]
  /\ UNCHANGED <<tokenBalance, table, intents>>
  /\ SeqFrame

DisputeWinSaveTable(s) ==
  /\ reqs[s].op = "dispute-win" /\ reqs[s].pc = "saveTable"
  /\ table' = [table EXCEPT ![reqs[s].tableId].status = "maintenance",
                 ![reqs[s].tableId].player1Id = Null,
                 ![reqs[s].tableId].player2Id = Null,
                 ![reqs[s].tableId].currentSessionId = NoSession]
  /\ reqs' = [reqs EXCEPT ![s] = Finished(reqs[s], 200)]
  /\ UNCHANGED <<tokenBalance, sessions, intents>>
  /\ SeqFrame

(* ---- Stripe payment intents ---- *)

(* Metadata numbers are kept in hundredths (amount / 100 need not be     *)
(* whole); parseInt drops the fraction.                                 *)
ParseInt(hundredths) == hundredths \div 100

(* paymentRoutes.js create-payment-intent: amount in cents; one token    *)
(* per hundred cents goes into the metadata the webhook reads.           *)
CreatePaymentIntent(u, amount) ==
  /\ amount > 0
  /\ Len(intents) < MaxIntents
  /\ Len(sessions) < MaxSessions
  /\ sessions' = Append(sessions,
        [NewSession(0, u, Null, amount \div 100, "pending", "token_purchase")
           EXCEPT !.purchasedTokens = amount \div 100])
  /\ intents' = Append(intents,
        [status |-> "requires_payment", amount |-> amount,
         userId |-> u, tokensAmount |-> amount,
         sessionType |-> "token_purchase", sessionId |-> Len(sessions) + 1,
         firebaseUid |-> Null, amountTokens |-> 0, type |-> Null])
  /\ UNCHANGED <<tokenBalance, table, reqs>>
  /\ SeqFrame

(* part_015 create-token-payment-intent. *)
CreateTokenPaymentIntent(u, amountTokens) ==
  /\ amountTokens > 0
  /\ amountTokens * TokenPriceCents >= MinChargeCents
  /\ Len(intents) < MaxIntents
  /\ intents' = Append(intents,
        [status |-> "requires_payment", amount |-> amountTokens * TokenPriceCents,
         userId |-> Null, tokensAmount |-> 0,
         sessionType |-> Null, sessionId |-> NoSession,
         firebaseUid |-> u, amountTokens |-> amountTokens,
         type |-> "token_purchase"])
  /\ UNCHANGED <<tokenBalance, table, sessions, reqs>>
  /\ SeqFrame

(* The customer pays: Stripe marks the intent succeeded and from then on *)
(* delivers payment_intent.succeeded, possibly more than once.           *)
PaymentSucceeds(pi) ==
  /\ pi \in 1..Len(intents)
  /\ intents[pi].status = "requires_payment"
  /\ intents' = [intents EXCEPT ![pi].status = "succeeded"]
  /\ UNCHANGED <<tokenBalance, table, sessions, reqs>>
  /\ SeqFrame

(* ---- server.js stripe-webhook, payment_intent.succeeded ---- *)

StripeWebhookFindUser(s, pi) ==
  /\ CanBegin(s)
  /\ pi \in 1..Len(intents)
  /\ intents[pi].status = "succeeded"
  /\ LET paymentIntent == intents[pi]
         purchasedTokens == ParseInt(paymentIntent.tokensAmount)
         r == Begin(s, "stripe-webhook", paymentIntent.userId, 0, pi) IN
     reqs' = [reqs EXCEPT ![s] =
       IF paymentIntent.userId # Null /\ purchasedTokens # 0
          /\ paymentIntent.sessionType = "token_purchase"
          /\ paymentIntent.sessionId # NoSession
       THEN [r EXCEPT !.pc = "saveUser", !.sid = paymentIntent.sessionId,
                      !.bal = tokenBalance[paymentIntent.userId] + purchasedTokens]
       ELSE Finished(r, 200)]
  /\ UNCHANGED <<tokenBalance, table, sessions, intents>>
  /\ SeqFrame

StripeWebhookSaveUser(s) ==
  /\ reqs[s].op = "stripe-webhook" /\ reqs[s].pc = "saveUser"
  /\ tokenBalance' = [tokenBalance EXCEPT ![reqs[s].user] = reqs[s].bal]
  /\ reqs' = [reqs EXCEPT ![s].pc = "saveSession"]
  /\ UNCHANGED <<table, sessions, intents>>
  /\ SeqFrame

(* Session.findById and session.save(): the update writes constants.     *)
StripeWebhookSaveSession(s) ==
  /\ reqs[s].op = "stripe-webhook" /\ reqs[s].pc = "saveSession"
  /\ LET r == reqs[s] IN
     /\ IF FindSession(r.sid) # NoSession
        THEN sessions' = [sessions EXCEPT ![r.sid].status = "completed",
                                          ![r.sid].stripePaymentIntentId = r.arg]
        ELSE /\ Len(sessions) < MaxSessions
             /\ sessions' = Append(sessions,
                  [NewSession(0, r.user, Null, intents[r.arg].amount \div 100,
                              "completed", "token_purchase")
                     EXCEPT !.purchasedTokens = ParseInt(intents[r.arg].tokensAmount),
                            !.stripePaymentIntentId = r.arg])
     /\ reqs' = [reqs EXCEPT ![s] = Finished(r, 200)]
  /\ UNCHANGED <<tokenBalance, table, intents>>
  /\ SeqFrame

(* ---- part_015 confirm-token-purchase ---- *)

AlreadyCredited(pi) ==
  \E i \in 1..Len(sessions) :
    sessions[i].stripePaymentIntentId = pi /\ sessions[i].type = "token_purchase"

(* The unique index on Session.stripePaymentIntentId. *)
DuplicateKey(pi) ==
  \E i \in 1..Len(sessions) : sessions[i].stripePaymentIntentId = pi

ConfirmTokenPurchaseRetrieve(s, u, pi, amountTokens) ==
  /\ CanBegin(s)
  /\ pi \in 1..Len(intents)
  /\ LET paymentIntent == intents[pi]
         r == Begin(s, "confirm-token-purchase", u, 0, pi) IN
     reqs' = [reqs EXCEPT ![s] =
       IF paymentIntent.status # "succeeded" \/ paymentIntent.firebaseUid # u
          \/ paymentIntent.amountTokens # amountTokens
       THEN Finished(r, 400)
       ELSE [r EXCEPT !.pc = "findSession"]]
  /\ UNCHANGED <<tokenBalance, table, sessions, intents>>
  /\ SeqFrame

ConfirmTokenPurchaseFindSession(s) ==
  /\ reqs[s].op = "confirm-token-purchase" /\ reqs[s].pc = "findSession"
  /\ reqs' = [reqs EXCEPT ![s] =
       IF AlreadyCredited(reqs[s].arg) THEN Finished(reqs[s], 200)
       ELSE [reqs[s] EXCEPT !.pc = "findUser"]]
  /\ UNCHANGED <<tokenBalance, table, sessions, intents>>
  /\ SeqFrame

ConfirmTokenPurchaseFindUser(s) ==
  /\ reqs[s].op = "confirm-token-purchase" /\ reqs[s].pc = "findUser"
  /\ LET r == reqs[s] IN
     reqs' = [reqs EXCEPT ![s] =
       [r EXCEPT !.pc = "saveUser",
                 !.bal = tokenBalance[r.user] + intents[r.arg].amountTokens]]
  /\ UNCHANGED <<tokenBalance, table, sessions, intents>>
  /\ SeqFrame

ConfirmTokenPurchaseSaveUser(s) ==
  /\ reqs[s].op = "confirm-token-purchase" /\ reqs[s].pc = "saveUser"
  /\ tokenBalance' = [tokenBalance EXCEPT ![reqs[s].user] = reqs[s].bal]
  /\ reqs' = [reqs EXCEPT ![s].pc = "saveSession"]
  /\ UNCHANGED <<table, sessions, intents>>
  /\ SeqFrame

ConfirmTokenPurchaseSaveSession(s) ==
  /\ reqs[s].op = "confirm-token-purchase" /\ reqs[s].pc = "saveSession"
  /\ LET r == reqs[s] IN
     IF DuplicateKey(r.arg)
     THEN /\ reqs' = [reqs EXCEPT ![s] = Finished(r, 500)]
          /\ UNCHANGED sessions
     ELSE /\ Len(sessions) < MaxSessions
          /\ sessions' = Append(sessions,
               [NewSession(0, r.user, Null, intents[r.arg].amount \div 100,
                           "completed", "token_purchase")
                  EXCEPT !.purchasedTokens = intents[r.arg].amountTokens,
                         !.stripePaymentIntentId = r.arg])
          /\ reqs' = [reqs EXCEPT ![s] = Finished(r, 200)]
  /\ UNCHANGED <<tokenBalance, table, intents>>
  /\ SeqFrame

(* ======================== concurrent specification ==================== *)

ConcInit == Init /\ rev \in {"A", "B"}

ConcNext ==
  \/ \E u \in Buyers : \E a \in Amounts : CreatePaymentIntent(u, a)
  \/ \E u \in Buyers : \E n \in TokenAmounts : CreateTokenPaymentIntent(u, n)
  \/ \E pi \in 1..MaxIntents : PaymentSucceeds(pi)
  \/ \E s \in Slots :
       \/ \E u \in Players : \E t \in Tables : \E cost \in ClientCosts :
            PayForTableFindUser(s, u, t, cost)
       \/ PayForTableFindTable(s)
       \/ PayForTableSaveUser(s)
       \/ PayForTableSaveSession(s)
       \/ PayForTableSaveTable(s)
       \/ \E u \in Players : \E t \in Tables : \E cost \in ClientCosts :
            PayWithTokensFind(s, u, t, cost)
       \/ PayWithTokensSaveUser(s)
       \/ \E u \in Players : \E t \in Tables : DropBallsNowFindTable(s, u, t)
       \/ DropBallsNowFindUser(s)
       \/ DropBallsNowSaveUser(s)
       \/ DropBallsNowSaveSession(s)
       \/ DropBallsNowSaveTable(s)
       \/ \E u \in Players : \E sid \in 1..MaxSessions :
            PaymentsConfirmFindSession(s, u, sid)
       \/ PaymentsConfirmFindUser(s)
       \/ PaymentsConfirmSaveUser(s)
       \/ PaymentsConfirmSaveSession(s)
       \/ \E pi \in 1..MaxIntents : StripeWebhookFindUser(s, pi)
       \/ StripeWebhookSaveUser(s)
       \/ StripeWebhookSaveSession(s)
       \/ \E u \in Players : \E pi \in 1..MaxIntents : \E n \in TokenAmounts :
            ConfirmTokenPurchaseRetrieve(s, u, pi, n)
       \/ ConfirmTokenPurchaseFindSession(s)
       \/ ConfirmTokenPurchaseFindUser(s)
       \/ ConfirmTokenPurchaseSaveUser(s)
       \/ ConfirmTokenPurchaseSaveSession(s)

ConcSpec == ConcInit /\ [][ConcNext]_vars

(* Revision A with overlapping win resolutions: admissions and claims   *)
(* run to completion, confirm-win and dispute-win interleave at their   *)
(* awaits.                                                              *)
WinNext ==
  \/ \E t \in Tables : \E u \in Players : DirectJoin(u, t)
  \/ \E t \in Tables : \E u \in Players : \E sid \in 1..MaxSessions :
       ClaimWinA(u, t, sid)
  \/ \E s \in Slots :
       \/ \E c \in Players : \E t \in Tables : \E sid \in 1..MaxSessions :
            \E w \in Players : ConfirmWinFind(s, c, t, sid, w)
       \/ ConfirmWinSaveSession(s)
       \/ ConfirmWinSaveTable(s)
       \/ \E d \in Players : \E t \in Tables : \E sid \in 1..MaxSessions :
            DisputeWinFind(s, d, t, sid)
       \/ DisputeWinSaveSession(s)
       \/ DisputeWinSaveTable(s)

WinSpec == InitA /\ [][WinNext]_vars

(* =============================== claims =============================== *)

DebitOps == {"pay-for-table", "pay-with-tokens", "drop-balls-now", "payments-confirm"}

(* What a finished debit request charged its user. *)
Charged(s) ==
  IF reqs[s].op \in DebitOps /\ reqs[s].pc = "done" /\ reqs[s].code = 200
  THEN IF reqs[s].op = "payments-confirm" THEN sessions[reqs[s].sid].cost
       ELSE reqs[s].arg
  ELSE 0

NonNegativeBalances == \A u \in Users : tokenBalance[u] >= 0

RefusedDebitLeavesBalance ==
  \A s \in Slots :
    (reqs[s].pc # "done" /\ reqs'[s].pc = "done"
       /\ reqs'[s].op \in DebitOps /\ reqs'[s].code # 200)
    => tokenBalance' = tokenBalance

(* C1: no overdraft. Under every interleaving of the debits               *)
(* (pay-for-table, pay-with-tokens, drop-balls-now, payments/confirm) and *)
(* the credits (webhook, confirm-token-purchase) no balance is ever       *)
(* negative, and the step that refuses a debit changes no balance.        *)
C1_NoOverdraft == []NonNegativeBalances /\ [][RefusedDebitLeavesBalance]_vars

(* A user with nothing left was refused a pay-with-tokens debit of the    *)
(* venue's cost after an earlier debit of theirs went through.            *)
C1_Witness ==
  \E s, d \in Slots :
    /\ s # d
    /\ reqs[s].pc = "done" /\ reqs[s].op = "pay-with-tokens"
    /\ reqs[s].arg = perGameCost /\ reqs[s].code = 400
    /\ reqs[d].user = reqs[s].user /\ Charged(d) > 0
    /\ tokenBalance[reqs[s].user] = 0

Terminal == {"completed", "disputed", "cancelled"}

LiveSessions(t) ==
  {i \in 1..Len(sessions) : sessions[i].tableId = t /\ sessions[i].status \notin Terminal}

(* C2: single occupancy. For every table at most one game session with   *)
(* that tableId is non-terminal, so no admission creates a session while  *)
(* the table still references a live one.                                 *)
C2_SingleOccupancy == \A t \in Tables : Cardinality(LiveSessions(t)) <= 1

(* C3: idempotent webhook credit. Once every request is a finished        *)
(* delivery of payment_intent.succeeded for one intent, the buyer holds   *)
(* the initial balance plus the purchased tokens, once.                   *)
C3_WebhookCreditsOnce ==
  \A pi \in 1..Len(intents) :
    (/\ intents[pi].userId # Null
     /\ \A s \in Slots : reqs[s].pc = "done" /\ reqs[s].op = "stripe-webhook"
                          /\ reqs[s].arg = pi)
    => tokenBalance[intents[pi].userId]
         = InitialBalance[intents[pi].userId] + ParseInt(intents[pi].tokensAmount)

(* C4: idempotent confirm-token-purchase. Once every request is a         *)
(* finished confirm-token-purchase of one intent by its buyer, the buyer  *)
(* holds at most the initial balance plus the purchased tokens.           *)
C4_ConfirmCreditsAtMostOnce ==
  \A pi \in 1..Len(intents) :
    (/\ intents[pi].firebaseUid # Null
     /\ \A s \in Slots : reqs[s].pc = "done"
                          /\ reqs[s].op = "confirm-token-purchase"
                          /\ reqs[s].arg = pi
                          /\ reqs[s].user = intents[pi].firebaseUid)
    => tokenBalance[intents[pi].firebaseUid]
         <= InitialBalance[intents[pi].firebaseUid] + intents[pi].amountTokens

(* C5: per-table serialization. Two requests that seat a player at the    *)
(* same table and loaded the same table document never both succeed.      *)
C5_TableSerialized ==
  \A s, d \in Slots :
    (/\ s # d
     /\ reqs[s].op \in {"pay-for-table", "drop-balls-now"}
     /\ reqs[d].op \in {"pay-for-table", "drop-balls-now"}
     /\ reqs[s].tableId = reqs[d].tableId
     /\ reqs[s].tb = reqs[d].tb
     /\ reqs[s].pc = "done" /\ reqs[d].pc = "done")
    => ~(reqs[s].code = 200 /\ reqs[d].code = 200)

(* C6: per-user ledger linearizability. Once every request is a finished  *)
(* debit, each balance is the initial balance less what the successful    *)
(* debits charged: no update is lost, and two debits do not both pass     *)
(* when the balance covers one.                                           *)
C6_LedgerLinearizable ==
  (\A s \in Slots : reqs[s].pc = "done" /\ reqs[s].op \in DebitOps)
  => \A u \in Users :
       tokenBalance[u] = InitialBalance[u]
         - Sum([s \in Slots |-> Charged(s)], {s \in Slots : reqs[s].user = u})

Occupants(tb) == {tb.player1Id, tb.player2Id} \ {Null}

(* C7: FIFO fairness. A queue grows only at its tail, and the user an    *)
(* invitation seats is the head of the queue, the others keeping their    *)
(* order: nobody who joined later is invited before a user still queued.  *)
C7_FifoFairness ==
  [][\A t \in Tables :
       /\ Len(table'[t].queue) > Len(table[t].queue)
            => \E u \in Users : table'[t].queue = Append(table[t].queue, u)
       /\ last'.invited # Null
            => /\ table[t].queue # <<>>
               /\ last'.invited = Head(table[t].queue)
               /\ last'.invited \in Occupants(table'[t])
               /\ table'[t].queue = Tail(table[t].queue)]_vars

(* A game ended and the head of the queue was invited while a later      *)
(* joiner stayed queued.                                                  *)
C7_Witness ==
  /\ rev = "B"
  /\ last.invited # Null
  /\ last.invited \in Occupants(table[1])
  /\ Len(table[1].queue) > 0

ConfirmWinStep(c, t, w) ==
  \/ \E sid \in 1..MaxSessions : ConfirmWinA(c, t, sid, w)
  \/ ConfirmWinB(c, t, w)

ConfirmWinSucceeds(c, t, w) == ConfirmWinStep(c, t, w) /\ last'.code = 200

(* C9: winner-stays. Right after a successful confirm-win the winner      *)
(* holds the first slot, the loser holds none, and the second slot is     *)
(* empty or holds the user who headed the queue.                          *)
C9_WinnerStays ==
  [][\A t \in Tables : \A c, w \in Users :
       ConfirmWinSucceeds(c, t, w)
       => /\ table'[t].player1Id = w
          /\ c \notin Occupants(table'[t])
          /\ \/ table'[t].player2Id = Null
             \/ /\ table[t].queue # <<>>
                /\ table'[t].player2Id = Head(table[t].queue)]_vars

(* C10: confirm-win precondition. confirm-win succeeds only on a table    *)
(* awaiting confirmation whose two occupants are the winner and the       *)
(* caller; a confirm-win that fails changes nothing.                      *)
C10_ConfirmWinPrecondition ==
  [][\A t \in Tables : \A c, w \in Users :
       /\ ConfirmWinSucceeds(c, t, w)
            => /\ table[t].status = "awaiting_confirmation"
               /\ c # w
               /\ Occupants(table[t]) = {c, w}
       /\ (ConfirmWinStep(c, t, w) /\ last'.code # 200)
            => UNCHANGED <<table, sessions, tokenBalance>>]_vars

(* The session a confirm-win step settles: the one the request names in  *)
(* routes/tableRoutes.js, the table's current session in part_013.       *)
SettledSession(t, sid) ==
  IF rev = "A" THEN sid ELSE FindSession(table[t].currentSessionId)

(* C11: confirm-win settlement. On every successful confirm-win the      *)
(* session becomes completed, the winner's tokenBalance grows by exactly *)
(* the session's cost and no other user's balance changes.               *)
C11_ConfirmWinSettles ==
  [][\A t \in Tables : \A c, w \in Users : \A sid \in 1..MaxSessions :
       (/\ \/ ConfirmWinA(c, t, sid, w)
           \/ (ConfirmWinB(c, t, w) /\ sid = table[t].currentSessionId)
        /\ last'.code = 200
        /\ SettledSession(t, sid) # NoSession)
       => /\ sessions'[SettledSession(t, sid)].status = "completed"
          /\ tokenBalance'[w] =
               tokenBalance[w] + sessions[SettledSession(t, sid)].cost
          /\ \A u \in Users \ {w} : tokenBalance'[u] = tokenBalance[u]]_vars

(* A step of claim-win by user u. *)
ClaimWinStep(u, t) ==
  \/ \E sid \in 1..MaxSessions : ClaimWinA(u, t, sid)
  \/ ClaimWinB(u, t)

ClaimWinSucceeds(u, t) == ClaimWinStep(u, t) /\ last'.code = 200

(* C12: claim-win precondition. claim-win succeeds only on a table in    *)
(* play whose two slots hold the claimant and a different user; a claim  *)
(* that fails changes nothing.                                            *)
C12_ClaimWinPrecondition ==
  [][\A t \in Tables : \A u \in Users :
       /\ ClaimWinSucceeds(u, t)
            => /\ table[t].status = "in_play"
               /\ u \in Occupants(table[t])
               /\ Cardinality(Occupants(table[t])) = 2
       /\ (ClaimWinStep(u, t) /\ last'.code # 200)
            => UNCHANGED <<table, sessions, tokenBalance>>]_vars

(* The names the revisions give to a session awaiting confirmation. *)
AwaitingConfirmation == {"awaiting_confirmation", "pending_confirmation"}

(* C13: claim-win effect. After a successful claim-win the table is      *)
(* awaiting confirmation, so is its current session, the session has no  *)
(* winner yet, and slots, queue and balances are as before.              *)
C13_ClaimWinEffect ==
  [][\A t \in Tables : \A u \in Users :
       ClaimWinSucceeds(u, t)
       => /\ table'[t].status = "awaiting_confirmation"
          /\ FindSession(table[t].currentSessionId) # NoSession
               => /\ sessions'[table[t].currentSessionId].status
                       \in AwaitingConfirmation
                  /\ sessions'[table[t].currentSessionId].winnerId = Null
          /\ table'[t].player1Id = table[t].player1Id
          /\ table'[t].player2Id = table[t].player2Id
          /\ table'[t].queue = table[t].queue
          /\ tokenBalance' = tokenBalance]_vars

(* A step of dispute-win by user d. *)
DisputeWinStep(d, t, sid) == DisputeWin(d, t, sid)

(* C14: dispute-win. It succeeds only while a win claim is pending and   *)
(* for the occupant who did not make the claim; it then puts the table   *)
(* in maintenance and the session in disputed and moves no tokens; a     *)
(* dispute that fails changes nothing.                                    *)
C14_DisputeWin ==
  [][\A t \in Tables : \A d \in Users : \A sid \in 1..MaxSessions :
       /\ (DisputeWinStep(d, t, sid) /\ last'.code = 200)
            => /\ sessions[sid].status = "pending_confirmation"
               /\ sessions[sid].winnerId # d
               /\ d \in Occupants(table[t])
               /\ table'[t].status = "maintenance"
               /\ sessions'[sid].status = "disputed"
               /\ tokenBalance' = tokenBalance
       /\ (DisputeWinStep(d, t, sid) /\ last'.code # 200)
            => UNCHANGED <<table, sessions, tokenBalance>>]_vars

(* C15: membership exclusivity. On every table each user appears at most *)
(* once across player1, player2 and the queue: the queue has no          *)
(* duplicates, no occupant is queued, and the two slots hold different   *)
(* users.                                                                *)
C15_MembershipExclusive ==
  \A t \in Tables :
    LET tb == table[t] IN
    /\ \A i, j \in 1..Len(tb.queue) : tb.queue[i] = tb.queue[j] => i = j
    /\ \A i \in 1..Len(tb.queue) : tb.queue[i] \notin Occupants(tb)
    /\ tb.player1Id # Null => tb.player1Id # tb.player2Id

(* A step of join-queue by user u, in whichever revision is deployed. *)
JoinQueueStep(u, t) ==
  \/ JoinQueueA(u, t)
  \/ JoinQueueB(u, t)
  \/ JoinQueueC(u, t)
  \/ JoinQueueD(u, t)

(* User u has a live place in the queue: an entry that was not declined. *)
Queued(tb, u) ==
  \E i \in 1..Len(tb.queue) :
    /\ tb.queue[i] = u
    /\ (rev = "C" => tb.queueStatus[i] # "declined")

LeaveQueueStep(u, t) ==
  \/ LeaveQueueA(u, t)
  \/ LeaveQueueB(u, t)
  \/ LeaveQueueD(u, t)

DirectAdmissionStep(u, t) ==
  \/ DirectJoin(u, t)
  \/ JoinTable(u, t)
  \/ DropBallsNowB(u, t)
  \/ DropBallsNowC(u, t)

(* C18: direct admission. After a successful direct-join, join-table or  *)
(* drop-balls-now the caller occupies a slot, has paid the venue's       *)
(* perGameCost in that request, and the queue of the table is empty.     *)
C18_DirectAdmission ==
  [][\A t \in Tables : \A u \in Users :
       (DirectAdmissionStep(u, t) /\ last'.code = 200)
       => /\ u \in Occupants(table'[t])
          /\ tokenBalance'[u] = tokenBalance[u] - perGameCost
          /\ table'[t].queue = <<>>]_vars

(* User u has a queue entry marked invited on the table. *)
Invited(tb, u) ==
  \E i \in 1..Len(tb.queue) : tb.queue[i] = u /\ tb.queueStatus[i] = "invited"

C20_ConfirmPayment ==
  [][\A u \in Users : \A sid \in 1..MaxSessions :
       PaymentsConfirm(u, sid)
       => IF /\ sid <= Len(sessions)
             /\ u \in {sessions[sid].player1Id, sessions[sid].player2Id}
             /\ tokenBalance[u] >= sessions[sid].cost
          THEN /\ last'.code = 200
               /\ tokenBalance'[u] = tokenBalance[u] - sessions[sid].cost
               /\ \A v \in Users \ {u} : tokenBalance'[v] = tokenBalance[v]
               /\ sessions'[sid].status = "active"
               /\ \A i \in 1..Len(sessions) : i # sid => sessions'[i] = sessions[i]
          ELSE /\ last'.code \in {400, 403}
               /\ UNCHANGED <<tokenBalance, sessions, table>>]_vars

(* A player paid for the session the invitation created: the session is  *)
(* active and the player's tokens are spent.                             *)
C20_Witness ==
  /\ rev = "C"
  /\ last.code = 200
  /\ \E sid \in 1..Len(sessions) :
       /\ sessions[sid].type = "per_game"
       /\ sessions[sid].status = "active"
       /\ sessions[sid].player1Id # Null
       /\ tokenBalance[sessions[sid].player1Id]
            = InitialBalance[sessions[sid].player1Id] - sessions[sid].cost

(* C21: terminal sessions are absorbing. Once a session is completed,    *)
(* disputed or cancelled, no operation changes its status again.         *)
C21_TerminalAbsorbing ==
  [][\A sid \in 1..Len(sessions) :
       sessions[sid].status \in Terminal
       => sessions'[sid].status = sessions[sid].status]_vars

(* C22: session cost is a snapshot. A session is created at the venue's  *)
(* cost of that moment, no operation changes a session's cost afterwards *)
(* (a venue update included), and payments/confirm debits the session's  *)
(* recorded cost, whatever the venue charges by then.                    *)
C22_CostSnapshot ==
  [][/\ \A sid \in 1..Len(sessions) : sessions'[sid].cost = sessions[sid].cost
     /\ Len(sessions') > Len(sessions)
          => sessions'[Len(sessions')].cost = perGameCost
     /\ \A u \in Users : \A sid \in 1..MaxSessions :
          (PaymentsConfirm(u, sid) /\ last'.code = 200)
          => tokenBalance[u] - tokenBalance'[u] = sessions[sid].cost]_vars

(* A session created at one cost was paid after the venue changed its    *)
(* cost: the player was charged the session's cost.                      *)
C22_Witness ==
  /\ rev = "C"
  /\ \E sid \in 1..Len(sessions) :
       /\ sessions[sid].status = "active"
       /\ sessions[sid].cost # perGameCost
       /\ sessions[sid].cost > 0
       /\ \E u \in Players :
            /\ u \in {sessions[sid].player1Id, sessions[sid].player2Id}
            /\ tokenBalance[u] = InitialBalance[u] - sessions[sid].cost

(* Session sid is a two-player session that confirm-win completed with   *)
(* winner w: in this revision only confirm-win completes a session that  *)
(* has two players.                                                      *)
ConfirmedFor(sid, w) ==
  /\ sid <= Len(sessions)
  /\ sessions[sid].status = "completed"
  /\ sessions[sid].player1Id # Null /\ sessions[sid].player2Id # Null
  /\ sessions[sid].winnerId = w

(* C23: winner immutability. Once a confirm-win has succeeded on a       *)
(* session, no later operation changes that session's winnerId.          *)
C23_WinnerImmutable ==
  \A sid \in 1..MaxSessions : \A w \in Users :
    [](ConfirmedFor(sid, w)
         => [](sid <= Len(sessions) /\ sessions[sid].winnerId = w))

ServiceStates == {"maintenance", "out_of_order"}

(* A step of one of the admin's handlers on table t. *)
AdminStep(t) ==
  \/ \E p \in Users : RemovePlayerA(AdminId, t, p) \/ RemovePlayerB(AdminId, t, p)
  \/ ClearQueueA(AdminId, t) \/ ClearQueueB(AdminId, t) \/ ClearQueueD(AdminId, t)

(* C24: admin-only service states. A table in maintenance or             *)
(* out_of_order keeps that status under every request that is not the    *)
(* admin's, and only a valid dispute-win or the admin puts a table into  *)
(* such a status.                                                        *)
C24_ServiceStatesAdminOnly ==
  [][\A t \in Tables :
       /\ (table[t].status \in ServiceStates /\ ~AdminStep(t))
            => table'[t].status = table[t].status
       /\ (table[t].status \notin ServiceStates /\ table'[t].status \in ServiceStates)
            => \/ AdminStep(t)
               \/ \E d \in Users : \E sid \in 1..MaxSessions :
                    DisputeWinStep(d, t, sid) /\ last'.code = 200]_vars

(* C25: dispute resolution is reachable. Whenever a table is in          *)
(* maintenance (which only a dispute causes), the admin has a request    *)
(* that returns the table to available.                                  *)
C25_DisputeResolvable ==
  \A t \in Tables :
    table[t].status = "maintenance"
    => ENABLED (AdminStep(t) /\ table'[t].status = "available")

(* C26: auto-admission on join. A user who joins the queue of a table    *)
(* that is in_play with exactly one occupant is given the empty slot by  *)
(* that same request: afterwards the user is seated, the table is still  *)
(* in_play and the queue does not contain the user.                      *)
C26_AutoAdmission ==
  [][\A t \in Tables : \A u \in Users :
       (/\ JoinQueueStep(u, t)
        /\ last'.code = 200
        /\ table[t].status = "in_play"
        /\ Cardinality(Occupants(table[t])) = 1)
       => /\ u \in Occupants(table'[t])
          /\ table'[t].status = "in_play"
          /\ u \notin Range(table'[t].queue)]_vars

InviteDone == reqs[1].op = "invite-next" /\ reqs[1].pc = "done"

(* Each retry of inviteNextPlayer strictly shrinks the stored queue. *)
RetryShrinks ==
  \A t \in Tables :
    (InviteNextPlayerCall(t) /\ reqs'[1].pc = "call")
    => Len(table'[t].queue) < Len(table[t].queue)

(* The users of a stored queue that still exist. *)
Existing(q) == SelectSeq(q, LAMBDA x : x \in Users)

(* The call moved one queued user into a slot that was open. *)
AssignedFromQueue(in, out) ==
  \E u \in Range(Existing(in.queue)) :
    /\ u \notin Occupants(in)
    /\ Occupants(out) = Occupants(in) \cup {u}
    /\ u \notin Range(out.queue)

(* The call assigned nobody and no existing user is left in the queue. *)
NobodyLeft(in, out) ==
  /\ out.player1Id = in.player1Id /\ out.player2Id = in.player2Id
  /\ Existing(out.queue) = <<>>

(* C27 as stated: a call of inviteNextPlayer, on every table and every   *)
(* finite queue, finishes after at most queue-length retries, each of    *)
(* which shrinks the stored queue, and ends in exactly one of: a queued  *)
(* user assigned to an open slot and removed from the queue, or no       *)
(* assignment with no existing user left in the queue.                   *)
C27_InviteTerminates ==
  /\ <>InviteDone
  /\ [](reqs[1].n <= Len(reqs[1].tb.queue))
  /\ [][RetryShrinks]_vars
  /\ [](InviteDone =>
          (AssignedFromQueue(reqs[1].tb, table[1])
             # NobodyLeft(reqs[1].tb, table[1])))

(* The existing users of the queue that are not seated, in queue order. *)
Candidates(tb) ==
  SelectSeq(tb.queue, LAMBDA x : x \in Users /\ x \notin Occupants(tb))

(* C27 amended: the call finishes after at most queue-length retries,    *)
(* each of which shrinks the stored queue. If a slot is open and the     *)
(* queue holds an existing user who is not seated, the first such user   *)
(* takes the open slot (player1 before player2) and leaves the queue;    *)
(* otherwise nobody is assigned, and then existing users may remain      *)
(* queued only when both slots are filled or they are seated themselves. *)
C27_InviteNext ==
  /\ <>InviteDone
  /\ [](reqs[1].n <= Len(reqs[1].tb.queue))
  /\ [][RetryShrinks]_vars
  /\ [](InviteDone =>
          LET in == reqs[1].tb
              out == table[1] IN
          IF Cardinality(Occupants(in)) < 2 /\ Candidates(in) # <<>>
             /\ (in.player1Id = Null \/ in.player2Id = Null)
          THEN LET u == Head(Candidates(in)) IN
               /\ IF in.player1Id = Null
                  THEN out.player1Id = u /\ out.player2Id = in.player2Id
                  ELSE out.player2Id = u /\ out.player1Id = in.player1Id
               /\ out.status = "in_play"
               /\ u \notin Range(out.queue)
          ELSE /\ out.player1Id = in.player1Id /\ out.player2Id = in.player2Id
               /\ (in.player1Id = Null \/ in.player2Id = Null)
                    => Candidates(out) = <<>>)

(* A call that skipped a deleted user and then seated an existing one. *)
C27_Witness ==
  /\ InviteDone
  /\ reqs[1].n >= 1
  /\ AssignedFromQueue(reqs[1].tb, table[1])

(* C28: a freed slot is offered to the queue. Whenever an operation      *)
(* takes an occupant off a table whose queue is not empty and leaves the *)
(* table serviceable, the user at the head of the queue is seated by the *)
(* same operation and removed from the queue.                            *)
C28_FreedSlotOffered ==
  [][\A t \in Tables :
       (/\ Occupants(table[t]) \ Occupants(table'[t]) # {}
        /\ table[t].queue # <<>>
        /\ table'[t].status \notin ServiceStates)
       => /\ Head(table[t].queue) \in Occupants(table'[t])
          /\ Head(table[t].queue) \notin Range(table'[t].queue)]_vars

(* C29: status matches occupancy. An available table has both slots      *)
(* empty, an occupied one exactly one slot filled, one awaiting          *)
(* confirmation both slots filled, and one in play at least one.         *)
C29_StatusMatchesOccupancy ==
  \A t \in Tables :
    LET n == Cardinality({s \in {1, 2} :
               IF s = 1 THEN table[t].player1Id # Null
                        ELSE table[t].player2Id # Null}) IN
    /\ table[t].status = "available" => n = 0
    /\ table[t].status = "occupied" => n = 1
    /\ table[t].status = "awaiting_confirmation" => n = 2
    /\ table[t].status = "in_play" => n >= 1

(* C30: no orphan live session. Every session that is not completed,     *)
(* disputed or cancelled is the one its table refers to as its current   *)
(* session.                                                              *)
C30_NoOrphanSession ==
  \A sid \in 1..Len(sessions) :
    sessions[sid].status \notin Terminal
    => table[sessions[sid].tableId].currentSessionId = sid

(* C31: win resolution touches only the session's own table. A           *)
(* claim-win, confirm-win or dispute-win that names table t and a        *)
(* session of another table fails and leaves t's status, occupants and   *)
(* current session as they were.                                         *)
C31_OwnTableOnly ==
  [][\A t \in DOMAIN table : \A u, w \in Users : \A sid \in 1..MaxSessions :
       (/\ sid <= Len(sessions)
        /\ sessions[sid].tableId # t
        /\ \/ ClaimWinA(u, t, sid)
           \/ ConfirmWinA(u, t, sid, w)
           \/ DisputeWin(u, t, sid))
       => /\ last'.code # 200
          /\ table'[t].status = table[t].status
          /\ table'[t].player1Id = table[t].player1Id
          /\ table'[t].player2Id = table[t].player2Id
          /\ table'[t].currentSessionId = table[t].currentSessionId]_vars

(* C32: one debit per session. A payments/confirm on a session that is   *)
(* not pending debits nothing; as a debit makes the session active, no   *)
(* session is then paid for more than once.                              *)
C32_OneDebitPerSession ==
  [][\A u \in Users : \A sid \in 1..MaxSessions :
       (/\ PaymentsConfirm(u, sid)
        /\ sid <= Len(sessions)
        /\ sessions[sid].status # "pending")
       => tokenBalance' = tokenBalance]_vars

(* A step of one of the handlers that may take a player off table t. *)
RemovalStep(t) ==
  \/ \E c, w \in Users : \E sid \in 1..MaxSessions : ConfirmWinA(c, t, sid, w)
  \/ \E c, w \in Users : ConfirmWinB(c, t, w)
  \/ \E d \in Users : \E sid \in 1..MaxSessions : DisputeWin(d, t, sid)
  \/ \E c \in Users : \E w \in Users \cup {Null} :
       GameCompletedB(c, t, w) \/ GameCompletedC(c, t, w)
  \/ \E p \in Users : RemovePlayerA(AdminId, t, p) \/ RemovePlayerB(AdminId, t, p)

(* C33: occupants are never silently displaced. A seated user leaves the *)
(* slot only through confirm-win, dispute-win, game-completed or the     *)
(* admin's remove-player on that table; in particular no admission of    *)
(* another user replaces an occupant.                                    *)
C33_NoSilentDisplacement ==
  [][\A t \in Tables :
       Occupants(table[t]) \ Occupants(table'[t]) # {} => RemovalStep(t)]_vars

WinResolutions == {"confirm-win", "dispute-win"}

(* C34: exactly one resolution per claim. Of the confirm-win and         *)
(* dispute-win requests sent for one session, however they overlap, at   *)
(* most one succeeds.                                                    *)
C34_OneResolution ==
  \A s, d \in Slots :
    (/\ s # d
     /\ reqs[s].op \in WinResolutions /\ reqs[d].op \in WinResolutions
     /\ reqs[s].pc = "done" /\ reqs[d].pc = "done"
     /\ reqs[s].sid # NoSession /\ reqs[s].sid = reqs[d].sid)
    => ~(reqs[s].code = 200 /\ reqs[d].code = 200)

(* The users a confirm-win on table t can succeed for in this state. *)
ConfirmableWinners(t) ==
  {w \in Users : \E c \in Users :
     \/ ENABLED (ConfirmWinB(c, t, w) /\ last'.code = 200)
     \/ \E sid \in 1..MaxSessions :
          ENABLED (ConfirmWinA(c, t, sid, w) /\ last'.code = 200)}

(* C35: the confirmed winner is the claimant. confirm-win succeeds only  *)
(* for the winnerId of the occupant whose claim-win is pending, so for a *)
(* table with a pending claim there is exactly one user a confirm-win    *)
(* can succeed for.                                                      *)
C35_WinnerIsClaimant ==
  \A t \in Tables : Cardinality(ConfirmableWinners(t)) <= 1

QueueStep(t) ==
  \E u \in Users : JoinQueueA(u, t) \/ LeaveQueueA(u, t) \/ ClearQueueA(u, t)

GameStatuses == {"in_play", "awaiting_confirmation"}

(* C36: queue operations do not disturb a game. join-queue, leave-queue  *)
(* and clear-queue leave both occupant slots and currentSessionId as     *)
(* they were, and leave the status of a table that is in_play or         *)
(* awaiting_confirmation as it was.                                      *)
C36_QueueKeepsGame ==
  [][\A t \in Tables :
       QueueStep(t)
       => /\ table'[t].player1Id = table[t].player1Id
          /\ table'[t].player2Id = table[t].player2Id
          /\ table'[t].currentSessionId = table[t].currentSessionId
          /\ (table[t].status \in GameStatuses
              => table'[t].status = table[t].status)]_vars

(* C37: failed admission changes nothing. When join-table or             *)
(* drop-balls-now answers with an error, the table (status, occupants,   *)
(* queue, current session), the caller's token balance and the set of    *)
(* sessions are what they were before the request.                       *)
C37_FailedAdmissionNoChange ==
  [][\A t \in Tables : \A u \in Users :
       (/\ JoinTable(u, t) \/ DropBallsNowB(u, t) \/ DropBallsNowC(u, t)
        /\ last'.code # 200)
       => /\ table'[t] = table[t]
          /\ tokenBalance'[u] = tokenBalance[u]
          /\ sessions' = sessions]_vars

(* An admission request of user x for table t. *)
AdmissionBy(x, t) ==
  \/ JoinTable(x, t)
  \/ DropBallsNowB(x, t)
  \/ DropBallsNowC(x, t)
  \/ AcceptInvitationC(x, t)

C39_CostIsVenuePrice ==
  [][/\ Len(sessions') > Len(sessions)
          => /\ sessions'[Len(sessions')].cost = perGameCost
             /\ \A u \in Users :
                  tokenBalance'[u] # tokenBalance[u]
                  => tokenBalance[u] - tokenBalance'[u] = sessions'[Len(sessions')].cost
     /\ \A t \in Tables : \A u \in Users : \A cost \in ClientCosts :
          (PayForTable(u, t, cost) /\ cost # perGameCost)
          => last'.code # 200 /\ tokenBalance' = tokenBalance]_vars

====
